---- MODULE Spec2Model ----
(***************************************************************************)
(* Model of src/src/azure_llama_client.py: the LlamaClient class           *)
(* (__init__, generate_text, generate_chat) and the start-up part of the   *)
(* __main__ block.                                                         *)
(*                                                                         *)
(* Representation.                                                         *)
(*   - A Python str that the code operates on (the endpoint, the header    *)
(*     values, the URL) is a sequence of one-character strings; a fixed    *)
(*     literal that is only ever concatenated is one element.              *)
(*   - An argument that may be None or omitted is a sequence of length at  *)
(*     most one: << >> is None/omitted, << v >> is the value v.            *)
(*   - A float is an integer count of hundredths (0.7 is 70, 0.95 is 95).  *)
(*   - requests.post is the environment: it either raises a                *)
(*     RequestException or returns the final Response (status, text).      *)
(***************************************************************************)
EXTENDS Integers, Sequences, FiniteSets, TLC

VARIABLES pc, apiKey, endpointArg, endpoint, headers,
          op, args, posts, reply, outcome

vars == <<pc, apiKey, endpointArg, endpoint, headers,
          op, args, posts, reply, outcome>>

(***************************************************************************)
(* Bounds and input sets                                                   *)
(***************************************************************************)
MaxLen == 2

Chars == {"h", "/"}

SeqsUpTo(S, n) == UNION {[1..k -> S] : k \in 0..n}

Some(v) == <<v>>

None == <<>>

\* endpoint strings a caller can pass to the constructor
Endpoints == SeqsUpTo(Chars, MaxLen)

\* api_key values: None, "" and a real key
ApiKeys == {None, Some(<<>>), Some(<<"s", "k">>)}

\* values of os.getenv("AZURE_ENDPOINT") without the default: unset or set
EnvEndpoints == {None, Some(<<"h", "/">>)}

Prompts == {"Say hi", "What are three interesting facts about Sweden?"}

\* stop_sequences: omitted, [] and a two-element list
StopSequences == {None, Some(<<>>), Some(<<"END", "\n">>)}

SamplingNames ==
  {"max_tokens", "temperature", "top_p", "frequency_penalty", "presence_penalty"}

\* the value a caller supplies for a sampling parameter when not omitted
Supplied ==
  [max_tokens |-> 10, temperature |-> 20, top_p |-> 50,
   frequency_penalty |-> 150, presence_penalty |-> -50]

\* which sampling parameters a call supplies: none, all, the two the
\* __main__ block passes, and the other three
SuppliedSets ==
  {{}, SamplingNames, {"max_tokens", "temperature"},
   {"top_p", "frequency_penalty", "presence_penalty"}}

\* keyword arguments of one call: each sampling parameter omitted or supplied
SamplingArgs ==
  {[n \in SamplingNames |-> IF n \in S THEN Some(Supplied[n]) ELSE None] :
     S \in SuppliedSets}

Msg(r, c) == [role |-> r, content |-> c]

ChatMessages ==
  {<<Msg("system", "You are a helpful assistant."), Msg("user", "hi")>>,
   <<Msg("user", "hi"), Msg("assistant", "hello"), Msg("user", "hi")>>}

StatusCodes == {200, 300, 404, 503}

Bodies == {"{\"choices\":[{\"message\":{\"content\":\"hi\"}}]}",
           "{\"error\":\"busy\"}",
           "<html>"}

\* RequestException subclasses raised by requests.post itself
PostExceptions == {"ConnectionError", "Timeout"}

NoReply == [kind |-> "none", exc |-> "", status |-> 0, text |-> ""]

Replies ==
  {[kind |-> "exception", exc |-> e, status |-> 0, text |-> ""] :
     e \in PostExceptions}
  \cup
  {[kind |-> "response", exc |-> "", status |-> s, text |-> b] :
     s \in StatusCodes, b \in Bodies}

(***************************************************************************)
(* LlamaClient.__init__                                                    *)
(***************************************************************************)
\* variant: removes one trailing "/" only
RStripOne(s) ==
  IF s # <<>> /\ s[Len(s)] = "/" THEN SubSeq(s, 1, Len(s) - 1) ELSE s

RECURSIVE RStrip(_)
\* str.rstrip('/'): removes every trailing "/"
RStrip(s) ==
  IF s # <<>> /\ s[Len(s)] = "/" THEN RStrip(SubSeq(s, 1, Len(s) - 1)) ELSE s

\* str(x) inside an f-string: None formats as "None"
Format(k) == IF k = None THEN <<"N", "o", "n", "e">> ELSE k[1]

HeaderNames == {"Content-Type", "Authorization"}

NoHeaders == [h \in HeaderNames |-> <<>>]

MakeHeaders(api_key) ==
  [h \in HeaderNames |->
     IF h = "Content-Type" THEN <<"application/json">>
     ELSE <<"Bearer ">> \o Format(api_key)]

(***************************************************************************)
(* Payload construction                                                    *)
(***************************************************************************)
DefaultMaxTokens == 1000

DefaultTemperature == 70

DefaultTopP == 95

DefaultFrequencyPenalty == 0

DefaultPresencePenalty == 0

Defaults ==
  [max_tokens |-> DefaultMaxTokens, temperature |-> DefaultTemperature,
   top_p |-> DefaultTopP, frequency_penalty |-> DefaultFrequencyPenalty,
   presence_penalty |-> DefaultPresencePenalty]

\* variant: the caller's value is ignored
BindAlwaysDefault(kw, name) == Defaults[name]

\* binding of a keyword parameter: the default when the caller omits it
Bind(kw, name) == IF kw[name] = None THEN Defaults[name] ELSE kw[name][1]

\* truth value of an Optional[List[str]]: None and [] are false
Truthy(opt) == IF opt = None THEN FALSE ELSE opt[1] # <<>>

BasePayload(messages, kw) ==
  [messages |-> messages,
   max_tokens |-> Bind(kw, "max_tokens"),
   temperature |-> Bind(kw, "temperature"),
   top_p |-> Bind(kw, "top_p"),
   frequency_penalty |-> Bind(kw, "frequency_penalty"),
   presence_penalty |-> Bind(kw, "presence_penalty")]

WithStop(p, stop) ==
  [k \in DOMAIN p \cup {"stop"} |-> IF k = "stop" THEN stop ELSE p[k]]

\* variant: the prompt is sent with role "system"
TextPayloadSystemRole(prompt, kw, stop_sequences) ==
  LET payload == BasePayload(<<Msg("system", prompt)>>, kw)
  IN  IF Truthy(stop_sequences) THEN WithStop(payload, stop_sequences[1])
      ELSE payload

\* variant: "if stop_sequences is not None", so [] is sent as stop
TextPayloadStopNotNone(prompt, kw, stop_sequences) ==
  LET payload == BasePayload(<<Msg("user", prompt)>>, kw)
  IN  IF stop_sequences # None THEN WithStop(payload, stop_sequences[1])
      ELSE payload

TextPayload(prompt, kw, stop_sequences) ==
  LET payload == BasePayload(<<Msg("user", prompt)>>, kw)
  IN  IF Truthy(stop_sequences) THEN WithStop(payload, stop_sequences[1])
      ELSE payload

\* variant: only the latest message is sent
ChatPayloadLastOnly(messages, kw) ==
  BasePayload(<<messages[Len(messages)]>>, kw)

ChatPayload(messages, kw) == BasePayload(messages, kw)

(***************************************************************************)
(* Transport                                                               *)
(***************************************************************************)
CompletionsPath == <<"/chat/completions?api-version=2024-02-15-preview">>

Url(ep) == ep \o CompletionsPath

PostCall(ep, hdrs, payload) == [url |-> Url(ep), headers |-> hdrs, json |-> payload]

\* variant: only 5xx raises
RaisesForServerError(status) == 500 <= status /\ status < 600

\* Response.raise_for_status: HTTPError for 4xx and 5xx, nothing otherwise
RaisesForStatus(status) == 400 <= status /\ status < 600

\* Response.json on the body text: << value >> or << >> when it is not JSON
JsonDecode(text) ==
  CASE text = "{\"choices\":[{\"message\":{\"content\":\"hi\"}}]}" ->
         Some([choices |-> <<[message |-> [content |-> "hi"]]>>])
    [] text = "{\"error\":\"busy\"}" -> Some([error |-> "busy"])
    [] OTHER -> None

Returned(v) == [kind |-> "returned", value |-> Some(v), exc |-> "", printed |-> <<>>]

Raised(e, logged) ==
  [kind |-> "raised", value |-> None, exc |-> e,
   printed |-> IF logged THEN <<e>> ELSE <<>>]

NoOutcome == [kind |-> "none", value |-> None, exc |-> "", printed |-> <<>>]

\* variant: the decoded body is wrapped before it is returned
CompleteWrapped(r, jsonErrCaught) ==
  IF r.kind = "exception" THEN Raised(r.exc, TRUE)
  ELSE IF RaisesForStatus(r.status) THEN Raised("HTTPError", TRUE)
  ELSE IF JsonDecode(r.text) = None THEN Raised("JSONDecodeError", jsonErrCaught)
  ELSE Returned([response |-> JsonDecode(r.text)[1]])

\* variant: an exception of requests.post is printed and swallowed
CompleteSwallows(r, jsonErrCaught) ==
  IF r.kind = "exception"
  THEN [kind |-> "returned", value |-> None, exc |-> "", printed |-> <<r.exc>>]
  ELSE IF RaisesForStatus(r.status) THEN Raised("HTTPError", TRUE)
  ELSE IF JsonDecode(r.text) = None THEN Raised("JSONDecodeError", jsonErrCaught)
  ELSE Returned(JsonDecode(r.text)[1])

\* the try/except block around requests.post, for the reply r of the post;
\* jsonErrCaught: whether the installed requests raises its own
\* JSONDecodeError (a RequestException) or a plain ValueError from .json()
Complete(r, jsonErrCaught) ==
  IF r.kind = "exception" THEN Raised(r.exc, TRUE)
  ELSE IF RaisesForStatus(r.status) THEN Raised("HTTPError", TRUE)
  ELSE IF JsonDecode(r.text) = None THEN Raised("JSONDecodeError", jsonErrCaught)
  ELSE Returned(JsonDecode(r.text)[1])

\* the builds that differ on r: only a body that fails to decode tells them
\* apart
JsonErrorKinds(r) ==
  IF r.kind = "response" /\ JsonDecode(r.text) = None THEN BOOLEAN ELSE {TRUE}

(***************************************************************************)
(* State machine                                                           *)
(***************************************************************************)
Init ==
  /\ pc = "start"
  /\ apiKey = None
  /\ endpointArg = <<>>
  /\ endpoint = <<>>
  /\ headers = NoHeaders
  /\ op = "none"
  /\ args = [kw |-> [n \in SamplingNames |-> None]]
  /\ posts = <<>>
  /\ reply = NoReply
  /\ outcome = NoOutcome

NoCall == UNCHANGED <<op, args, posts, reply, outcome>>

\* not api_key
Falsy(k) == IF k = None THEN TRUE ELSE k[1] = <<>>

DefaultEndpoint ==
  <<"https://Llama-3-3-70B-Instruct-TALT.swedencentral.models.ai.azure.com">>

\* os.getenv("AZURE_ENDPOINT", default)
GetEndpoint(env) == IF env = None THEN DefaultEndpoint ELSE env[1]

\* LlamaClient(endpoint, api_key)
NewClient(ep, key) ==
  /\ endpointArg' = ep
  /\ apiKey' = key
  /\ endpoint' = RStrip(ep)
  /\ headers' = MakeHeaders(key)
  /\ pc' = "ready"

\* __main__ with AZURE_API_KEY unset or empty: ValueError, no client
MainMissingKey ==
  \E envKey \in ApiKeys, envEndpoint \in EnvEndpoints :
    /\ pc = "start"
    /\ Falsy(envKey)
    /\ apiKey' = envKey
    /\ endpointArg' = GetEndpoint(envEndpoint)
    /\ pc' = "failed"
    /\ UNCHANGED <<endpoint, headers>>
    /\ NoCall

\* __main__ with AZURE_API_KEY set: the client is created
MainCreateClient ==
  \E envKey \in ApiKeys, envEndpoint \in EnvEndpoints :
    /\ pc = "start"
    /\ ~Falsy(envKey)
    /\ NewClient(GetEndpoint(envEndpoint), envKey)
    /\ NoCall

\* a caller of the library creates the client directly
Construct ==
  \E ep \in Endpoints, key \in ApiKeys :
    /\ pc = "start"
    /\ NewClient(ep, key)
    /\ NoCall

\* variant: a failed call drops the Authorization header
GenerateTextDropsAuth ==
  \E prompt \in Prompts, kw \in SamplingArgs, stop \in StopSequences,
     r \in Replies :
   \E jsonErrCaught \in JsonErrorKinds(r) :
    /\ pc = "ready"
    /\ op' = "generate_text"
    /\ args' = [prompt |-> prompt, kw |-> kw, stop_sequences |-> stop]
    /\ posts' = <<PostCall(endpoint, headers, TextPayload(prompt, kw, stop))>>
    /\ reply' = r
    /\ outcome' = Complete(r, jsonErrCaught)
    /\ headers' = IF Complete(r, jsonErrCaught).kind = "raised"
                  THEN [headers EXCEPT !["Authorization"] = <<>>]
                  ELSE headers
    /\ UNCHANGED <<pc, apiKey, endpointArg, endpoint>>

GenerateText ==
  \E prompt \in Prompts, kw \in SamplingArgs, stop \in StopSequences,
     r \in Replies :
   \E jsonErrCaught \in JsonErrorKinds(r) :
    /\ pc = "ready"
    /\ op' = "generate_text"
    /\ args' = [prompt |-> prompt, kw |-> kw, stop_sequences |-> stop]
    /\ posts' = <<PostCall(endpoint, headers, TextPayload(prompt, kw, stop))>>
    /\ reply' = r
    /\ outcome' = Complete(r, jsonErrCaught)
    /\ UNCHANGED <<pc, apiKey, endpointArg, endpoint, headers>>

GenerateChat ==
  \E messages \in ChatMessages, kw \in SamplingArgs,
     r \in Replies :
   \E jsonErrCaught \in JsonErrorKinds(r) :
    /\ pc = "ready"
    /\ op' = "generate_chat"
    /\ args' = [messages |-> messages, kw |-> kw]
    /\ posts' = <<PostCall(endpoint, headers, ChatPayload(messages, kw))>>
    /\ reply' = r
    /\ outcome' = Complete(r, jsonErrCaught)
    /\ UNCHANGED <<pc, apiKey, endpointArg, endpoint, headers>>

Next ==
  \/ MainMissingKey
  \/ MainCreateClient
  \/ Construct
  \/ GenerateText
  \/ GenerateChat

Spec == Init /\ [][Next]_vars

(***************************************************************************)
(* Properties                                                              *)
(***************************************************************************)
Called == op # "none"

Responded == Called /\ reply.kind = "response"

Is2xx(status) == 200 <= status /\ status < 300

Is4xxOr5xx(status) == 400 <= status /\ status < 600

\* C1: generate_text(prompt, ...) issues a request whose body's messages is
\* exactly the one-element list [{role: "user", content: prompt}].
C1_TextMessages ==
  op = "generate_text" =>
    /\ posts # <<>>
    /\ \A i \in DOMAIN posts :
         /\ Len(posts[i].json.messages) = 1
         /\ posts[i].json.messages[1] = [role |-> "user", content |-> args.prompt]

C1_Witness ==
  /\ op = "generate_text"
  /\ args.prompt = "Say hi"
  /\ posts[1].json.messages = <<[role |-> "user", content |-> "Say hi"]>>

\* C2: the payload of generate_text has the key stop if and only if
\* stop_sequences is provided and non-empty, and then stop is that sequence.
C2_StopKey ==
  op = "generate_text" =>
    \A i \in DOMAIN posts :
      LET given == args.stop_sequences
          json  == posts[i].json
      IN  IF given = <<>> THEN "stop" \notin DOMAIN json
          ELSE IF given[1] = <<>> THEN "stop" \notin DOMAIN json
          ELSE "stop" \in DOMAIN json /\ json.stop = given[1]

C2_Witness ==
  /\ op = "generate_text"
  /\ args.stop_sequences = <<<<"END", "\n">>>>
  /\ "stop" \in DOMAIN posts[1].json
  /\ posts[1].json.stop = <<"END", "\n">>

C4_ChatMessages ==
  op = "generate_chat" =>
    /\ posts # <<>>
    /\ \A i \in DOMAIN posts :
         /\ Len(posts[i].json.messages) = Len(args.messages)
         /\ \A j \in DOMAIN args.messages :
              posts[i].json.messages[j] = args.messages[j]

C4_Witness ==
  /\ op = "generate_chat"
  /\ Len(args.messages) = 3
  /\ posts[1].json.messages[2] = [role |-> "assistant", content |-> "hello"]

\* C5: when no API key is available (absent or empty) there is no state in
\* which a client exists and an HTTP request has been issued.
C5_NoRequestWithoutKey ==
  ~ /\ apiKey \in {<<>>, << <<>> >>}
    /\ pc = "ready"
    /\ posts # <<>>

\* C6: a call whose response has a 2xx status and a decodable JSON body
\* returns exactly the decoded body.
C6_ReturnsDecodedBody ==
  (Responded /\ Is2xx(reply.status) /\ JsonDecode(reply.text) # <<>>) =>
    /\ outcome.kind = "returned"
    /\ outcome.value = JsonDecode(reply.text)
    /\ reply.text = "{\"choices\":[{\"message\":{\"content\":\"hi\"}}]}" =>
         outcome.value = <<[choices |-> <<[message |-> [content |-> "hi"]]>>]>>

C6_Witness ==
  /\ op = "generate_text"
  /\ args.prompt = "Say hi"
  /\ reply.status = 200
  /\ outcome.kind = "returned"
  /\ outcome.value = <<[choices |-> <<[message |-> [content |-> "hi"]]>>]>>

\* C7: in both operations the payload carries, for every sampling parameter,
\* the caller's value when supplied and otherwise the default
\* (max_tokens 1000, temperature 0.7, top_p 0.95, both penalties 0).
C7_SamplingDefaults ==
  Called =>
    \A i \in DOMAIN posts :
      \A n \in SamplingNames :
        posts[i].json[n] =
          IF args.kw[n] = <<>>
          THEN [max_tokens |-> 1000, temperature |-> 70, top_p |-> 95,
                frequency_penalty |-> 0, presence_penalty |-> 0][n]
          ELSE args.kw[n][1]

C7_Witness ==
  /\ op = "generate_chat"
  /\ args.kw["max_tokens"] = <<10>>
  /\ args.kw["top_p"] = <<>>
  /\ posts[1].json.max_tokens = 10
  /\ posts[1].json.top_p = 95

\* C8: once the client is constructed, no call changes its endpoint or its
\* headers, whether the call returns or raises, and every call sends the
\* URL and headers of the construction.
C8_ConfigImmutable ==
  [][pc = "ready" =>
       /\ endpoint' = endpoint
       /\ headers' = headers
       /\ \A i \in DOMAIN posts' :
            /\ posts'[i].headers = headers
            /\ posts'[i].url = endpoint \o CompletionsPath]_vars

C8_Witness ==
  /\ pc = "ready"
  /\ outcome.kind = "raised"
  /\ headers["Authorization"] = <<"Bearer ", "s", "k">>
  /\ posts[1].headers = headers

C10_RequestUrl ==
  pc = "ready" =>
    /\ endpoint = <<>> \/ endpoint[Len(endpoint)] # "/"
    /\ \E k \in 0..Len(endpointArg) :
         endpointArg = endpoint \o [j \in 1..k |-> "/"]
    /\ \A i \in DOMAIN posts :
         posts[i].url =
           endpoint \o <<"/chat/completions?api-version=2024-02-15-preview">>

C10_Witness ==
  /\ op = "generate_chat"
  /\ endpointArg = <<"h", "/">>
  /\ endpoint = <<"h">>
  /\ posts[1].url = <<"h", "/chat/completions?api-version=2024-02-15-preview">>

====
